---- MODULE Spec2Model ----
(***************************************************************************)
(* Cloudnautic Shop backend (src/backend/app.py): registration, login,     *)
(* product creation and order placement over a relational store.           *)
(*                                                                         *)
(* The store holds the committed rows.  Every request works in its own     *)
(* ORM session: rows it loads are cached in the session's identity map,    *)
(* its changes stay in the session until db.session.commit() and a request *)
(* that returns without committing loses them.  Reads see committed rows   *)
(* (the isolation the handlers get from a server database by default);     *)
(* the handlers take no lock and the UPDATE of a product row writes the    *)
(* value computed in Python.  Requests of different workers interleave at  *)
(* every store access.  Prices are Float in the source and whole numbers   *)
(* here.                                                                   *)
(***************************************************************************)
EXTENDS Integers, Sequences, FiniteSets, TLC

\* ---- bounds ----
\* Stock a product starts with, and the largest quantity of a line item.
MaxStock == 2
MaxQty == 1

\* Two concurrent requests, two order ids, two products, up to two line
\* items; requests carry a negative or a positive quantity.  The shop runs
\* with one account, the credential store alone with two.
Workers == {"w1", "w2"}
OrderIds == {1, 2}
ProductIds == {1, 2}
ItemCounts == {0, 1, 2}
Emails == {"a@x", "b@x"}
Names == {"n1", "n2"}
ShopNames == {"n1"}
Passwords == {"pw1", "pw2"}
Salts == {"s1", "s2"}
ShopEmails == {"a@x"}
ShopPasswords == {"pw1"}
ShopSalts == {"s1"}
Prices == {5}
InitPrice == 10
Quantities == {-1} \cup 1..MaxQty
StockInputs == {MaxStock}
LineItems == [product_id : ProductIds, quantity : Quantities]
ItemLists == UNION {[1..n -> LineItems] : n \in ItemCounts}

\* users, products, orders, orderItems: the committed rows; orderSeq: the
\* last Order id the store handed out; issued: the tokens clients hold;
\* regLog: the credentials and ids of the 201 register responses; pc, osess,
\* rsess: where each worker's request stands and what its session holds;
\* resp: the last response sent.
VARIABLES users, products, orders, orderItems, orderSeq, issued, regLog,
          pc, osess, rsess, resp

vars == <<users, products, orders, orderItems, orderSeq, issued, regLog,
          pc, osess, rsess, resp>>

store == <<users, products, orders, orderItems>>

\* ---- responses ----
\* resp is the last response the service sent.
Response(op, status, id, total) ==
    [op |-> op, status |-> status, id |-> id, total |-> total, orders |-> {}]

NoResp == Response("none", 0, 0, 0)

\* ---- werkzeug password hashing, salted ----
Digest(salt, password) == <<salt, password>>

generate_password_hash(password, salt) ==
    [salt |-> salt, digest |-> Digest(salt, password)]

\* A check that compares no password.
CheckSaltOnly(pwhash, password) == pwhash.digest[1] = pwhash.salt

check_password_hash(pwhash, password) ==
    pwhash.digest = Digest(pwhash.salt, password)

\* ---- bearer tokens ----
create_access_token(identity) == [sub |-> identity, signed |-> TRUE]

ForgedTokens == {[sub |-> u, signed |-> FALSE] : u \in 0..1}

PresentableTokens == issued \cup ForgedTokens

\* A gate that reads the identity without verifying the signature.
JwtUnverified(tok) == tok.sub \in Nat

jwt_required(tok) == tok.signed

\* ---- queries ----
UserByEmail(email) == {i \in DOMAIN users : users[i].email = email}

ProductExists(pid) == pid \in DOMAIN products

NoOrderSession ==
    [user_id |-> 0, order_id |-> 0, items |-> <<>>, idx |-> 0,
     loaded |-> <<>>, new_items |-> <<>>, total |-> 0]

NoRegSession == [email |-> "", name |-> "", password |-> "", password_hash |-> <<>>]

Init ==
    /\ users = <<>>
    /\ products = <<[price |-> InitPrice, stock_quantity |-> MaxStock]>>
    /\ orders = <<>>
    /\ orderItems = <<>>
    /\ orderSeq = 0
    /\ issued = {}
    /\ regLog = {}
    /\ pc = [w \in Workers |-> "idle"]
    /\ osess = [w \in Workers |-> NoOrderSession]
    /\ rsess = [w \in Workers |-> NoRegSession]
    /\ resp = NoResp

\* Query.first(): the first row of the result.
First(rows) == CHOOSE i \in rows : \A j \in rows : i <= j

EmailTaken(email) == UserByEmail(email) # {}

\* User.check_password
check_password(i, password) == check_password_hash(users[i].password_hash, password)

\* ---- POST /api/auth/register ----

RegisterCheck(w, email, name, password, salt) ==
    /\ pc[w] = "idle"
    /\ IF EmailTaken(email)
       THEN /\ resp' = Response("register", 400, 0, 0)
            /\ UNCHANGED <<pc, rsess>>
       ELSE /\ rsess' = [rsess EXCEPT ![w] =
                   [email |-> email, name |-> name, password |-> password,
                    password_hash |-> generate_password_hash(password, salt)]]
            /\ pc' = [pc EXCEPT ![w] = "register_commit"]
            /\ UNCHANGED resp
    /\ UNCHANGED <<store, orderSeq, issued, regLog, osess>>

\* db.session.commit() of the new user row: the unique constraint on
\* User.email rejects the INSERT when the email was committed meanwhile.
RegisterCommit(w) ==
    /\ pc[w] = "register_commit"
    /\ pc' = [pc EXCEPT ![w] = "idle"]
    /\ rsess' = [rsess EXCEPT ![w] = NoRegSession]
    /\ IF EmailTaken(rsess[w].email)
       THEN /\ resp' = Response("register", 500, 0, 0)
            /\ UNCHANGED <<users, issued, regLog>>
       ELSE LET id == Len(users) + 1 IN
            /\ users' = Append(users,
                   [id |-> id, email |-> rsess[w].email, name |-> rsess[w].name,
                    password_hash |-> rsess[w].password_hash])
            /\ issued' = issued \cup {create_access_token(id)}
            /\ regLog' = regLog \cup
                   {[email |-> rsess[w].email, password |-> rsess[w].password, id |-> id]}
            /\ resp' = Response("register", 201, id, 0)
    /\ UNCHANGED <<products, orders, orderItems, orderSeq, osess>>

\* ---- POST /api/auth/login ----
Login(w, email, password) ==
    /\ pc[w] = "idle"
    /\ IF EmailTaken(email) /\ check_password(First(UserByEmail(email)), password)
       THEN LET user == users[First(UserByEmail(email))] IN
            /\ issued' = issued \cup {create_access_token(user.id)}
            /\ resp' = Response("login", 200, user.id, 0)
       ELSE /\ resp' = Response("login", 401, 0, 0)
            /\ UNCHANGED issued
    /\ UNCHANGED <<store, orderSeq, regLog, pc, osess, rsess>>

\* ---- @jwt_required() on a protected route ----
ProtectedRoutes == {"create_product", "create_order", "get_user_orders"}

\* The decorator answers 401 before the handler runs.
Unauthorized(w, route, tok) ==
    /\ pc[w] = "idle"
    /\ ~jwt_required(tok)
    /\ resp' = Response(route, 401, 0, 0)
    /\ UNCHANGED <<store, orderSeq, issued, regLog, pc, osess, rsess>>

\* ---- POST /api/products ----
create_product(w, tok, price, stock) ==
    /\ pc[w] = "idle"
    /\ jwt_required(tok)
    /\ Len(products) + 1 \in ProductIds
    /\ products' = Append(products, [price |-> price, stock_quantity |-> stock])
    /\ resp' = Response("create_product", 201, Len(products) + 1, 0)
    /\ UNCHANGED <<users, orders, orderItems, orderSeq, issued, regLog, pc, osess, rsess>>

\* ---- GET /api/orders ----
get_user_orders(w, tok) ==
    /\ pc[w] = "idle"
    /\ jwt_required(tok)
    /\ resp' = [Response("get_user_orders", 200, 0, 0) EXCEPT
           !.orders = {orders[i].id : i \in {j \in DOMAIN orders : orders[j].user_id = tok.sub}}]
    /\ UNCHANGED <<store, orderSeq, issued, regLog, pc, osess, rsess>>

\* ---- POST /api/orders ----
\* Lines 265-276: the token's identity, the Order added and flushed (its id
\* comes from the store's sequence), total_amount = 0.
CreateOrderBegin(w, tok, items) ==
    /\ pc[w] = "idle"
    /\ jwt_required(tok)
    /\ orderSeq + 1 \in OrderIds
    /\ orderSeq' = orderSeq + 1
    /\ osess' = [osess EXCEPT ![w] =
           [user_id |-> tok.sub, order_id |-> orderSeq + 1, items |-> items,
            idx |-> 1, loaded |-> <<>>, new_items |-> <<>>, total |-> 0]]
    /\ pc' = [pc EXCEPT ![w] = "order_items"]
    /\ UNCHANGED <<store, issued, regLog, rsess, resp>>

\* A lookup that always reads the committed row.
QueryGetCommitted(w, pid) ==
    [price |-> products[pid].price,
     stock_quantity |-> products[pid].stock_quantity,
     committed |-> products[pid].stock_quantity]

\* Product.query.get: the session's identity map first, else the committed row.
QueryGet(w, pid) ==
    IF pid \in DOMAIN osess[w].loaded THEN osess[w].loaded[pid]
    ELSE [price |-> products[pid].price,
          stock_quantity |-> products[pid].stock_quantity,
          committed |-> products[pid].stock_quantity]

\* A stock check that lets one unit too many through.
InStockOffByOne(product, quantity) == ~(product.stock_quantity < quantity - 1)

InStock(product, quantity) == ~(product.stock_quantity < quantity)

\* The UPDATE the commit flushes for a loaded product: only a changed
\* stock_quantity is written, as the value the session computed.
FlushStock(w, pid) ==
    IF pid \in DOMAIN osess[w].loaded
       /\ osess[w].loaded[pid].stock_quantity # osess[w].loaded[pid].committed
    THEN osess[w].loaded[pid].stock_quantity
    ELSE products[pid].stock_quantity

\* A failing request that commits what its session holds.
AbortOrderCommitsSession(w, status) ==
    /\ resp' = Response("create_order", status, 0, 0)
    /\ pc' = [pc EXCEPT ![w] = "idle"]
    /\ osess' = [osess EXCEPT ![w] = NoOrderSession]
    /\ products' = [pid \in DOMAIN products |->
           [products[pid] EXCEPT !.stock_quantity = FlushStock(w, pid)]]
    /\ orders' = Append(orders,
           [id |-> osess[w].order_id, user_id |-> osess[w].user_id, total_amount |-> 0])
    /\ orderItems' = orderItems \o osess[w].new_items
    /\ UNCHANGED <<users, orderSeq, issued, regLog, rsess>>

\* The request ends without a commit: the session and all it holds are dropped.
AbortOrder(w, status) ==
    /\ resp' = Response("create_order", status, 0, 0)
    /\ pc' = [pc EXCEPT ![w] = "idle"]
    /\ osess' = [osess EXCEPT ![w] = NoOrderSession]
    /\ UNCHANGED <<store, orderSeq, issued, regLog, rsess>>

\* A subtotal that forgets the quantity.
LineSubtotalUnitPrice(product, quantity) == product.price

LineSubtotal(product, quantity) == product.price * quantity

\* One pass of the loop at lines 278-293.
CreateOrderItem(w) ==
    /\ pc[w] = "order_items"
    /\ osess[w].idx <= Len(osess[w].items)
    /\ LET item == osess[w].items[osess[w].idx]
           pid == item.product_id
       IN  IF ~ProductExists(pid) /\ pid \notin DOMAIN osess[w].loaded
           THEN \* product is None: product.name raises inside the f-string
                AbortOrder(w, 500)
           ELSE LET product == QueryGet(w, pid) IN
                IF ~InStock(product, item.quantity)
                THEN AbortOrder(w, 400)
                ELSE /\ osess' = [osess EXCEPT ![w] =
                         [@ EXCEPT
                            !.new_items = Append(@,
                                [order_id |-> osess[w].order_id, product_id |-> pid,
                                 quantity |-> item.quantity, price |-> product.price]),
                            !.total = @ + LineSubtotal(product, item.quantity),
                            !.loaded = (pid :> [product EXCEPT
                                !.stock_quantity = @ - item.quantity]) @@ @,
                            !.idx = @ + 1]]
                     /\ UNCHANGED <<store, orderSeq, issued, regLog, pc, rsess, resp>>

\* Lines 295-302.
CreateOrderCommit(w) ==
    /\ pc[w] = "order_items"
    /\ osess[w].idx > Len(osess[w].items)
    /\ products' = [pid \in DOMAIN products |->
           [products[pid] EXCEPT !.stock_quantity = FlushStock(w, pid)]]
    /\ orders' = Append(orders,
           [id |-> osess[w].order_id, user_id |-> osess[w].user_id,
            total_amount |-> osess[w].total])
    /\ orderItems' = orderItems \o osess[w].new_items
    /\ resp' = Response("create_order", 201, osess[w].order_id, osess[w].total)
    /\ pc' = [pc EXCEPT ![w] = "idle"]
    /\ osess' = [osess EXCEPT ![w] = NoOrderSession]
    /\ UNCHANGED <<users, orderSeq, issued, regLog, rsess>>

\* ---- the service ----
Auth(w, emails, names, passwords, salts) ==
    \/ \E e \in emails, n \in names, p \in passwords, s \in salts : RegisterCheck(w, e, n, p, s)
    \/ RegisterCommit(w)
    \/ \E e \in emails, p \in passwords : Login(w, e, p)

Shop(w) ==
    \/ \E route \in ProtectedRoutes, tok \in PresentableTokens : Unauthorized(w, route, tok)
    \/ \E tok \in PresentableTokens, price \in Prices, stock \in StockInputs :
          create_product(w, tok, price, stock)
    \/ \E tok \in PresentableTokens : get_user_orders(w, tok)
    \/ \E tok \in PresentableTokens, items \in ItemLists : CreateOrderBegin(w, tok, items)
    \/ CreateOrderItem(w)
    \/ CreateOrderCommit(w)

Handle(w) == Auth(w, ShopEmails, ShopNames, ShopPasswords, ShopSalts) \/ Shop(w)

Next == \E w \in Workers : Handle(w)

Spec == Init /\ [][Next]_vars

\* One request at a time: a worker acts only while every other one is idle.
Alone(w) == \A v \in Workers \ {w} : pc[v] = "idle"

SerialHandle(w) ==
    \/ \E e \in ShopEmails, n \in ShopNames, p \in ShopPasswords, s \in ShopSalts :
          Alone(w) /\ RegisterCheck(w, e, n, p, s)
    \/ Alone(w) /\ RegisterCommit(w)
    \/ \E e \in ShopEmails, p \in ShopPasswords : Alone(w) /\ Login(w, e, p)
    \/ \E route \in ProtectedRoutes, tok \in PresentableTokens :
          Alone(w) /\ Unauthorized(w, route, tok)
    \/ \E tok \in PresentableTokens, price \in Prices, stock \in StockInputs :
          Alone(w) /\ create_product(w, tok, price, stock)
    \/ \E tok \in PresentableTokens : Alone(w) /\ get_user_orders(w, tok)
    \/ \E tok \in PresentableTokens, items \in ItemLists :
          Alone(w) /\ CreateOrderBegin(w, tok, items)
    \/ Alone(w) /\ CreateOrderItem(w)
    \/ Alone(w) /\ CreateOrderCommit(w)

SerialNext == \E w \in Workers : SerialHandle(w)

SerialSpec == Init /\ [][SerialNext]_vars

\* The credential store alone, over more emails, passwords and salts.
AuthNext == \E w \in Workers : Auth(w, Emails, Names, Passwords, Salts)

AuthSpec == Init /\ [][AuthNext]_vars

\* ---- sums over line items and rows ----
RECURSIVE SumQty(_, _)
SumQty(items, pid) ==
    IF items = <<>> THEN 0
    ELSE (IF items[1].product_id = pid THEN items[1].quantity ELSE 0)
         + SumQty(Tail(items), pid)

RECURSIVE SumSubtotals(_, _)
SumSubtotals(rows, oid) ==
    IF rows = <<>> THEN 0
    ELSE (IF rows[1].order_id = oid THEN rows[1].price * rows[1].quantity ELSE 0)
         + SumSubtotals(Tail(rows), oid)

AllPositive(items) == \A i \in DOMAIN items : items[i].quantity >= 1

AllExist(items) == \A i \in DOMAIN items : ProductExists(items[i].product_id)

\* The request of worker w ends in this step.
Ends(w, from) == pc[w] = from /\ pc'[w] = "idle"

\* C3: every product's persisted stock_quantity is >= 0 in every reachable
\* state, whatever create_order requests ran and however they interleaved.
C3_StockNeverNegative ==
    \A pid \in DOMAIN products : products[pid].stock_quantity >= 0

C3_Witness ==
    /\ \E pid \in DOMAIN products :
          /\ products[pid].stock_quantity = 0
          /\ \E j \in DOMAIN orderItems : orderItems[j].product_id = pid
    /\ resp.op = "create_order" /\ resp.status = 400

\* C4: every persisted Order's total_amount is the sum of price * quantity
\* over its persisted OrderItems, each price being the product's unit price,
\* and the total_amount of a 201 response is the persisted one.
C4_TotalIsSumOfItems ==
    /\ \A i \in DOMAIN orders :
          orders[i].total_amount = SumSubtotals(orderItems, orders[i].id)
    /\ \A j \in DOMAIN orderItems :
          orderItems[j].price = products[orderItems[j].product_id].price
    /\ (resp.op = "create_order" /\ resp.status = 201) =>
          \E i \in DOMAIN orders :
             orders[i].id = resp.id /\ orders[i].total_amount = resp.total

C4_Witness ==
    \E i \in DOMAIN orders :
       /\ orders[i].total_amount = InitPrice + 5
       /\ Cardinality({j \in DOMAIN orderItems : orderItems[j].order_id = orders[i].id}) = 2
       /\ resp.op = "create_order" /\ resp.status = 201 /\ resp.id = orders[i].id

\* C6: every persisted OrderItem has quantity >= 1 and every persisted Order
\* has total_amount >= 0, whatever quantities the requests carried.
C6_PositiveQuantities ==
    /\ \A j \in DOMAIN orderItems : orderItems[j].quantity >= 1
    /\ \A i \in DOMAIN orders : orders[i].total_amount >= 0

\* C1: a create_order that succeeds takes its quantities out of the stock
\* that is persisted when it commits: the stock covers them and decreases by
\* exactly them, so concurrent requests whose quantities together exceed the
\* stock cannot all succeed.
C1_ConcurrentOrdersSerialize ==
    [][\A w \in Workers :
          (/\ CreateOrderCommit(w)
           /\ AllPositive(orderItems)
           /\ \A v \in Workers : AllPositive(osess[v].items)) =>
             \A pid \in DOMAIN products :
                /\ SumQty(osess[w].items, pid) <= products[pid].stock_quantity
                /\ products'[pid].stock_quantity =
                      products[pid].stock_quantity - SumQty(osess[w].items, pid)]_vars

\* C2: a create_order request that fails (400 or 500) at any line item leaves
\* the persisted rows as they were: no stock changes, and no Order or
\* OrderItem carrying the request's order id is persisted.
C2_FailedOrderRollsBack ==
    [][\A w \in Workers :
          (Ends(w, "order_items") /\ resp'.status # 201) =>
             /\ resp'.op = "create_order" /\ resp'.status \in {400, 500}
             /\ UNCHANGED store
             /\ \A i \in DOMAIN orders' : orders'[i].id # osess[w].order_id
             /\ \A j \in DOMAIN orderItems' : orderItems'[j].order_id # osess[w].order_id]_vars

\* The first line item passed and is decremented in the session, the second
\* one is about to fail.
C2_Witness ==
    \E w \in Workers :
       /\ pc[w] = "order_items"
       /\ osess[w].idx = 2 /\ Len(osess[w].items) = 2 /\ Len(osess[w].new_items) = 1
       /\ osess[w].items[1].quantity >= 1
       /\ ProductExists(osess[w].items[2].product_id)
       /\ ~InStock(QueryGet(w, osess[w].items[2].product_id), osess[w].items[2].quantity)

\* C5: a line item whose product does not exist aborts the order with the
\* insufficient-stock failure, HTTP 400, and persists nothing.
C5_MissingProductIs400 ==
    [][\A w \in Workers :
          (/\ Ends(w, "order_items")
           /\ osess[w].idx <= Len(osess[w].items)
           /\ ~ProductExists(osess[w].items[osess[w].idx].product_id)) =>
             (resp'.status = 400 /\ UNCHANGED store)]_vars

\* C7: a register request whose email is already registered, at its check or
\* at its commit, gets the duplicate-email 400 and adds no user; no two users
\* share an email.
C7_DuplicateEmailIs400 ==
    [][\A w \in Workers :
          /\ (pc[w] = "idle" /\ resp'.op = "register" /\ resp' # resp
                /\ \E e \in Emails : EmailTaken(e) /\ \E n \in Names, p \in Passwords, sl \in Salts :
                      RegisterCheck(w, e, n, p, sl))
                => (resp'.status = 400 /\ users' = users)
          /\ (Ends(w, "register_commit") /\ EmailTaken(rsess[w].email))
                => (resp'.status = 400 /\ users' = users)
          /\ \A i, j \in DOMAIN users' : users'[i].email = users'[j].email => i = j]_vars

\* C8: login with the email and password of an earlier successful register
\* returns 200, a token and the user id register returned; login with another
\* password or an unregistered email returns 401.
Registered(email, password) ==
    {a \in regLog : a.email = email /\ a.password = password}

C8_RegisterThenLogin ==
    [][\A w \in Workers, e \in Emails, p \in Passwords :
          Login(w, e, p) =>
             IF Registered(e, p) # {}
             THEN /\ resp'.op = "login" /\ resp'.status = 200
                  /\ \A a \in Registered(e, p) : resp'.id = a.id
                  /\ create_access_token(resp'.id) \in issued'
             ELSE resp'.op = "login" /\ resp'.status = 401]_vars

C8_Witness ==
    /\ resp.op = "login" /\ resp.status = 200 /\ resp.id = 1
    /\ Len(users) = 2

\* C9: a protected route called without a valid token answers 401 and changes
\* nothing; every persisted Order belongs to a registered user who holds an
\* issued token.
OrdersOfTokenHolders ==
    \A i \in DOMAIN orders :
       /\ create_access_token(orders[i].user_id) \in issued
       /\ \E u \in DOMAIN users : users[u].id = orders[i].user_id

C10_ItemsSeeEarlierDecrements ==
    [][\A w \in Workers :
          LET items == osess[w].items
              upto == SubSeq(items, 1, osess[w].idx)
          IN  /\ (CreateOrderCommit(w) /\ AllPositive(items)) =>
                    \A pid \in DOMAIN products :
                       /\ SumQty(items, pid) <= products[pid].stock_quantity
                       /\ products'[pid].stock_quantity =
                             products[pid].stock_quantity - SumQty(items, pid)
              /\ (Ends(w, "order_items") /\ resp'.status = 400 /\ AllPositive(items)) =>
                    \E pid \in DOMAIN products :
                       SumQty(upto, pid) > products[pid].stock_quantity
              /\ (Ends(w, "order_items") /\ AllPositive(items) /\ AllExist(items)
                    /\ \A pid \in DOMAIN products :
                          SumQty(items, pid) <= products[pid].stock_quantity) =>
                    resp'.status = 201]_vars

C10_Witness ==
    \E i, j \in DOMAIN orderItems :
       /\ i < j
       /\ orderItems[i].order_id = orderItems[j].order_id
       /\ orderItems[i].product_id = orderItems[j].product_id
       /\ orderItems[i].quantity >= 1 /\ orderItems[j].quantity >= 1
       /\ products[orderItems[i].product_id].stock_quantity = 0

====
